---- MODULE Spec2Model ----
(***************************************************************************)
(* nanokit: fixed-arity string concatenation (string_concat.rs,            *)
(* string_concat_unsafe.rs), its C-ABI exports (exports.rs) and BitsNeeded *)
(* (count_bits.rs).                                                        *)
(*                                                                         *)
(* Spec      one call of concat_N / concat_N_no_overflow, statement by     *)
(*           statement, on a machine whose usize has WordBits bits.        *)
(* SpecConcurrent  two such calls of one function on the same input      *)
(*           strings, their statements interleaved.                        *)
(* SpecBits  one call of bits_needed_to_store on a value of an integer     *)
(*           type, held as its two's-complement bit pattern.               *)
(***************************************************************************)
EXTENDS Integers, Sequences, FiniteSets, TLC

VARIABLES
    func,             \* name of the function being called ("none" under SpecBits)
    args,             \* its arguments after as_ref(): a sequence of byte strings, as they read at entry
    overflow_checks,  \* build setting: TRUE = `+` on usize panics on overflow (debug), FALSE = wraps (release)
    call,             \* the locals of the call and how far it got
    call2,            \* the locals of the other call (SpecConcurrent); the call not being stepped
    mem,              \* the memory the arguments point into: byte at each address of the text
    ty,               \* integer type of the bits_needed_to_store receiver ("none" under Spec)
    val,              \* the receiver's bit pattern, most significant bit first
    ret               \* bits_needed_to_store: [done |-> BOOLEAN, value |-> u32]

vars == <<func, args, overflow_checks, call, call2, mem, ty, val, ret>>

----------------------------------------------------------------------------
(* Bounds of the model *)

\* usize::BITS of the modelled platform (the code runs on 16-, 32- and 64-bit targets)
WordBits == 3
\* longest input string drawn (never above isize::MAX, the longest a str can be)
MaxLen == 3
\* inputs are slices of one text; argument i starts at byte Stride * i of it
MaxStride == 1

RECURSIVE Pow2(_)
Pow2(n) == IF n <= 0 THEN 1 ELSE 2 * Pow2(n - 1)

\* usize::MAX + 1
USIZE_RANGE == Pow2(WordBits)
\* isize::MAX
ISIZE_MAX == Pow2(WordBits - 1) - 1

Min(a, b) == IF a < b THEN a ELSE b

----------------------------------------------------------------------------
(* usize arithmetic *)

\* a + b on usize as the machine computes it
wrapping_add(a, b) == (a + b) % USIZE_RANGE

\* whether a + b on usize overflows
add_overflows(a, b) == a + b >= USIZE_RANGE

----------------------------------------------------------------------------
(* The function bodies, one statement per element.                         *)
(*   total_length   let total_length = s1.len() + ... + sN.len();   n = N  *)
(*   check          if total_length > isize::MAX { unreachable_unchecked }  *)
(*   with_capacity  let mut result = String::with_capacity(total_length)   *)
(*   set_len        vec.set_len(total_length)                              *)
(*   let_pos        let mut pos = 0                                        *)
(*   copy           copy_nonoverlapping(arg[n].as_ptr(), dst, arg[n].len()) *)
(*                  dst: "start" = vec.as_mut_ptr(),                       *)
(*                       "pos"   = vec.as_mut_ptr().add(pos),              *)
(*                       "len1"  = vec.as_mut_ptr().add(base.len())        *)
(*   pos_add        pos += arg[n].len()                                    *)
(*   ret            result                                                 *)
(***************************************************************************)

Stmt(op, n, dst) == [op |-> op, n |-> n, dst |-> dst]

concat_2 ==
    << Stmt("total_length", 2, "-"),
       Stmt("with_capacity", 0, "-"),
       Stmt("set_len", 0, "-"),
       Stmt("copy", 1, "start"),
       Stmt("copy", 2, "len1"),
       Stmt("ret", 0, "-") >>

concat_3 ==
    << Stmt("total_length", 3, "-"),
       Stmt("with_capacity", 0, "-"),
       Stmt("set_len", 0, "-"),
       Stmt("let_pos", 0, "-"),
       Stmt("copy", 1, "start"),
       Stmt("pos_add", 1, "-"),
       Stmt("copy", 2, "pos"),
       Stmt("pos_add", 2, "-"),
       Stmt("copy", 3, "pos"),
       Stmt("ret", 0, "-") >>

concat_4 ==
    << Stmt("total_length", 4, "-"),
       Stmt("with_capacity", 0, "-"),
       Stmt("set_len", 0, "-"),
       Stmt("let_pos", 0, "-"),
       Stmt("copy", 1, "start"),
       Stmt("pos_add", 1, "-"),
       Stmt("copy", 2, "pos"),
       Stmt("pos_add", 2, "-"),
       Stmt("copy", 3, "pos"),
       Stmt("pos_add", 3, "-"),
       Stmt("copy", 4, "pos"),
       Stmt("ret", 0, "-") >>

concat_5 ==
    << Stmt("total_length", 5, "-"),
       Stmt("with_capacity", 0, "-"),
       Stmt("set_len", 0, "-"),
       Stmt("let_pos", 0, "-"),
       Stmt("copy", 1, "start"),
       Stmt("pos_add", 1, "-"),
       Stmt("copy", 2, "pos"),
       Stmt("pos_add", 2, "-"),
       Stmt("copy", 3, "pos"),
       Stmt("pos_add", 3, "-"),
       Stmt("copy", 4, "pos"),
       Stmt("pos_add", 4, "-"),
       Stmt("copy", 5, "pos"),
       Stmt("ret", 0, "-") >>

concat_2_no_overflow ==
    << Stmt("total_length", 2, "-"),
       Stmt("check", 0, "-"),
       Stmt("with_capacity", 0, "-"),
       Stmt("set_len", 0, "-"),
       Stmt("copy", 1, "start"),
       Stmt("copy", 2, "len1"),
       Stmt("ret", 0, "-") >>

\* concat_3_no_overflow with the statement `pos += middle.len()` left out
concat_3_no_overflow_pos_not_advanced ==
    << Stmt("total_length", 3, "-"),
       Stmt("check", 0, "-"),
       Stmt("with_capacity", 0, "-"),
       Stmt("set_len", 0, "-"),
       Stmt("let_pos", 0, "-"),
       Stmt("copy", 1, "start"),
       Stmt("pos_add", 1, "-"),
       Stmt("copy", 2, "pos"),
       Stmt("copy", 3, "pos"),
       Stmt("ret", 0, "-") >>

concat_3_no_overflow ==
    << Stmt("total_length", 3, "-"),
       Stmt("check", 0, "-"),
       Stmt("with_capacity", 0, "-"),
       Stmt("set_len", 0, "-"),
       Stmt("let_pos", 0, "-"),
       Stmt("copy", 1, "start"),
       Stmt("pos_add", 1, "-"),
       Stmt("copy", 2, "pos"),
       Stmt("pos_add", 2, "-"),
       Stmt("copy", 3, "pos"),
       Stmt("ret", 0, "-") >>

concat_4_no_overflow ==
    << Stmt("total_length", 4, "-"),
       Stmt("check", 0, "-"),
       Stmt("with_capacity", 0, "-"),
       Stmt("set_len", 0, "-"),
       Stmt("let_pos", 0, "-"),
       Stmt("copy", 1, "start"),
       Stmt("pos_add", 1, "-"),
       Stmt("copy", 2, "pos"),
       Stmt("pos_add", 2, "-"),
       Stmt("copy", 3, "pos"),
       Stmt("pos_add", 3, "-"),
       Stmt("copy", 4, "pos"),
       Stmt("ret", 0, "-") >>

concat_5_no_overflow ==
    << Stmt("total_length", 5, "-"),
       Stmt("check", 0, "-"),
       Stmt("with_capacity", 0, "-"),
       Stmt("set_len", 0, "-"),
       Stmt("let_pos", 0, "-"),
       Stmt("copy", 1, "start"),
       Stmt("pos_add", 1, "-"),
       Stmt("copy", 2, "pos"),
       Stmt("pos_add", 2, "-"),
       Stmt("copy", 3, "pos"),
       Stmt("pos_add", 3, "-"),
       Stmt("copy", 4, "pos"),
       Stmt("pos_add", 4, "-"),
       Stmt("copy", 5, "pos"),
       Stmt("ret", 0, "-") >>

SafeFuncs == {"concat_2", "concat_3", "concat_4", "concat_5"}
NoOverflowFuncs == {"concat_2_no_overflow", "concat_3_no_overflow",
                    "concat_4_no_overflow", "concat_5_no_overflow"}
Funcs == SafeFuncs \cup NoOverflowFuncs

\* exports.rs: a C-ABI export is one call; `callee` is the function called
\* and argument i of that call is parameter pass[i] of the export
concat_2_c == [callee |-> "concat_2", pass |-> <<1, 2>>]

\* concat_3(base, end, middle) in the place of concat_3(base, middle, end)
concat_3_c_swapped == [callee |-> "concat_3", pass |-> <<1, 3, 2>>]

concat_3_c == [callee |-> "concat_3", pass |-> <<1, 2, 3>>]

concat_4_c == [callee |-> "concat_4", pass |-> <<1, 2, 3, 4>>]

concat_5_c == [callee |-> "concat_5", pass |-> <<1, 2, 3, 4, 5>>]

concat_2_no_overflow_c == [callee |-> "concat_2_no_overflow", pass |-> <<1, 2>>]

Exports == {"concat_2_c", "concat_3_c", "concat_4_c", "concat_5_c",
            "concat_2_no_overflow_c"}

Export(f) ==
    CASE f = "concat_2_c" -> concat_2_c
      [] f = "concat_3_c" -> concat_3_c
      [] f = "concat_4_c" -> concat_4_c
      [] f = "concat_5_c" -> concat_5_c
      [] f = "concat_2_no_overflow_c" -> concat_2_no_overflow_c

\* the function whose statements a call of f executes
Callee(f) == IF f \in Exports THEN Export(f).callee ELSE f

\* the arguments those statements see when f is called on a
Passed(f, a) ==
    IF f \in Exports THEN [i \in 1..Len(Export(f).pass) |-> a[Export(f).pass[i]]]
    ELSE a

\* the statements a call of f executes: its own, or for an export those of the
\* function it calls
Body(f) ==
    LET g == Callee(f)
    IN  CASE g = "concat_2" -> concat_2
          [] g = "concat_3" -> concat_3
          [] g = "concat_4" -> concat_4
          [] g = "concat_5" -> concat_5
          [] g = "concat_2_no_overflow" -> concat_2_no_overflow
          [] g = "concat_3_no_overflow" -> concat_3_no_overflow
          [] g = "concat_4_no_overflow" -> concat_4_no_overflow
          [] g = "concat_5_no_overflow" -> concat_5_no_overflow

\* number of parameters of f
Arity(f) ==
    CASE f \in {"concat_2", "concat_2_no_overflow", "concat_2_c",
                "concat_2_no_overflow_c"} -> 2
      [] f \in {"concat_3", "concat_3_no_overflow", "concat_3_c"} -> 3
      [] f \in {"concat_4", "concat_4_no_overflow", "concat_4_c"} -> 4
      [] f \in {"concat_5", "concat_5_no_overflow", "concat_5_c"} -> 5

\* the safe function of the same arity
SafeOf(f) ==
    CASE Arity(f) = 2 -> "concat_2"
      [] Arity(f) = 3 -> "concat_3"
      [] Arity(f) = 4 -> "concat_4"
      [] Arity(f) = 5 -> "concat_5"

----------------------------------------------------------------------------
(* The statements.  A call's locals are the record                         *)
(*   pc            index in the body of the statement to execute next      *)
(*   status        "running", "returned", "panicked" (unwinding panic),    *)
(*                 "aborted" (handle_alloc_error), "crashed" (the process  *)
(*                 died after undefined behaviour)                         *)
(*                 "absent" (call2 when there is one call only)            *)
(*   total_length, pos   the locals of that name                           *)
(*   cap, len, buf       capacity, logical length and bytes of `result`    *)
(*   written       per byte of buf, how many copies have written it        *)
(*   allocs        allocations made so far                                 *)
(*   copied        bytes moved so far by copy_nonoverlapping               *)
(*   oob           a copy has written outside buf (heap overflow)          *)
(*   undefined     unreachable_unchecked() was executed                    *)
(*   result        the String returned                                     *)
(***************************************************************************)

NewCall ==
    [pc |-> 1, status |-> "running", total_length |-> 0, pos |-> 0,
     cap |-> 0, len |-> 0, buf |-> <<>>, written |-> <<>>, allocs |-> 0,
     copied |-> 0, oob |-> FALSE, undefined |-> FALSE, result |-> <<>>]

\* the place of the other call when there is none
NoCall == [NewCall EXCEPT !.status = "absent"]

Advance(c) == [c EXCEPT !.pc = c.pc + 1]

\* s1.len() + ... + sn.len(), added left to right on usize
RECURSIVE total_length(_, _)
total_length(a, n) ==
    IF n = 1 THEN Len(a[1])
    ELSE wrapping_add(total_length(a, n - 1), Len(a[n]))

\* whether one of the additions of total_length(a, n) overflows
total_length_overflows(a, n) ==
    \E i \in 2..n : add_overflows(total_length(a, i - 1), Len(a[i]))

\* let total_length = ...: with overflow checks the overflowing `+` panics
\* ("attempt to add with overflow"), without them it wraps
exec_total_length(c, a, n, oc) ==
    IF oc /\ total_length_overflows(a, n)
    THEN [c EXCEPT !.status = "panicked"]
    ELSE Advance([c EXCEPT !.total_length = total_length(a, n)])

\* if total_length > isize::MAX { unreachable_unchecked() }: the branch not taken
exec_check(c) == Advance(c)

\* if total_length >= isize::MAX: the branch taken one length too early
check_taken_at_max(c) == c.total_length >= ISIZE_MAX

\* whether the branch of the check is taken
check_taken(c) == c.total_length > ISIZE_MAX

\* String::with_capacity(total_length): panics ("capacity overflow") above
\* isize::MAX; otherwise a buffer of that capacity, length 0, bytes uninitialised
\* (a capacity of 0 allocates nothing)
exec_with_capacity(c) ==
    IF c.total_length > ISIZE_MAX
    THEN [c EXCEPT !.status = "panicked"]
    ELSE Advance([c EXCEPT !.cap = c.total_length,
                           !.len = 0,
                           !.buf = [i \in 1..c.total_length |-> 0],
                           !.written = [i \in 1..c.total_length |-> 0],
                           !.allocs = c.allocs + (IF c.total_length > 0 THEN 1 ELSE 0)])

\* result.reserve(total_length) before set_len: a second request to the
\* allocator for a buffer that with_capacity has already sized
exec_set_len_reserve(c) ==
    Advance([c EXCEPT !.len = c.total_length,
                      !.allocs = c.allocs + (IF c.total_length > 0 THEN 1 ELSE 0)])

\* vec.set_len(total_length)
exec_set_len(c) == Advance([c EXCEPT !.len = c.total_length])

\* let mut pos = 0
exec_let_pos(c) == Advance([c EXCEPT !.pos = 0])

\* the offset from vec.as_mut_ptr() that a copy statement writes to
dst_offset(c, a, dst) ==
    CASE dst = "start" -> 0
      [] dst = "pos" -> c.pos
      [] dst = "len1" -> Len(a[1])

\* offset in the address space of byte k (from 0) of a copy to offset off
byte_offset(off, k) == (off + k) % USIZE_RANGE

\* core::ptr::copy_nonoverlapping(src.as_ptr(), vec.as_mut_ptr().add(off), src.len()):
\* byte k of src goes to offset off + k; the offsets inside the buffer change buf,
\* the others are written outside it
copy_nonoverlapping(c, src, off) ==
    LET hits(i) == {k \in 0..(Len(src) - 1) : byte_offset(off, k) = i - 1}
        inside  == {k \in 0..(Len(src) - 1) : byte_offset(off, k) < c.cap}
    IN  [c EXCEPT !.buf = [i \in 1..c.cap |->
                              IF hits(i) = {} THEN c.buf[i]
                              ELSE src[(CHOOSE k \in hits(i) : TRUE) + 1]],
                  !.written = [i \in 1..c.cap |->
                              c.written[i] + Cardinality(hits(i))],
                  !.copied = c.copied + Len(src),
                  !.oob = c.oob \/ Cardinality(inside) < Len(src)]

exec_copy(c, a, n, dst) == Advance(copy_nonoverlapping(c, a[n], dst_offset(c, a, dst)))

\* pos is left where it was: the next copy starts where this one started
exec_pos_add_skipped(c, a, n, oc) == Advance(c)

\* pos += arg[n].len()
exec_pos_add(c, a, n, oc) ==
    IF oc /\ add_overflows(c.pos, Len(a[n]))
    THEN [c EXCEPT !.status = "panicked"]
    ELSE Advance([c EXCEPT !.pos = wrapping_add(c.pos, Len(a[n]))])

\* result: the first len bytes of the buffer
exec_ret(c) == [c EXCEPT !.status = "returned", !.result = SubSeq(c.buf, 1, c.len)]

\* one statement, where the language defines what it does
Exec(c, s, a, oc) ==
    CASE s.op = "total_length"  -> exec_total_length(c, a, s.n, oc)
      [] s.op = "check"         -> exec_check(c)
      [] s.op = "with_capacity" -> exec_with_capacity(c)
      [] s.op = "set_len"       -> exec_set_len(c)
      [] s.op = "let_pos"       -> exec_let_pos(c)
      [] s.op = "copy"          -> exec_copy(c, a, s.n, s.dst)
      [] s.op = "pos_add"       -> exec_pos_add(c, a, s.n, oc)
      [] s.op = "ret"           -> exec_ret(c)

\* the call run from c to its end, the allocation succeeding and no undefined
\* behaviour ending the process
RECURSIVE Run(_, _, _, _)
Run(c, body, a, oc) ==
    IF c.status # "running" THEN c
    ELSE Run(Exec(c, body[c.pc], a, oc), body, a, oc)

----------------------------------------------------------------------------
(* Inputs *)

\* the text the arguments are slices of: byte j is j
Text(j) == j

\* the n bytes from offset off of the text
Slice(off, n) == [k \in 1..n |-> Text(off + k)]

\* the argument lists drawn: argument i is a slice of at most MaxLen bytes
\* (and at most isize::MAX, as every str) starting at offset stride * i
ArgLists(n) ==
    { [i \in 1..n |-> Slice(stride * i, lens[i])] :
        stride \in 0..MaxStride,
        lens \in [1..n -> 0..Min(MaxLen, ISIZE_MAX)] }

\* Text(j) = j: an argument, as drawn, lists the addresses of its bytes
LastAddr(a) ==
    LET used == UNION {{a[i][k] : k \in 1..Len(a[i])} : i \in 1..Len(a)}
    IN  IF used = {} THEN 0 ELSE CHOOSE j \in used : \A l \in used : j >= l

\* the memory holding the text the arguments are slices of
TextOf(a) == [j \in 1..LastAddr(a) |-> Text(j)]

\* what the arguments read as when memory is m: the same &str (address and
\* length), the bytes now stored there
Load(m, a) == [i \in 1..Len(a) |-> [k \in 1..Len(a[i]) |-> m[a[i][k]]]]

\* the bytes of src that a copy to offset off of c's buffer puts outside it
outside(c, src, off) == {k \in 0..(Len(src) - 1) : byte_offset(off, k) >= c.cap}

\* the object obj when it lies directly behind c's buffer: the byte written at
\* offset cap + j of the buffer lands on byte j of obj
overrun(obj, c, src, off) ==
    LET hits(i) == {k \in outside(c, src, off) : byte_offset(off, k) - c.cap = i - 1}
    IN  [i \in 1..Len(obj) |->
            IF hits(i) = {} THEN obj[i]
            ELSE src[(CHOOSE k \in hits(i) : TRUE) + 1]]

----------------------------------------------------------------------------
(* Spec: one call of a concat function *)

Stmts == Body(func)
Cur == Stmts[call.pc]
\* handle_alloc_error and a crash end the process, and every call with it
ProcessDead == call.status \in {"aborted", "crashed"} \/ call2.status \in {"aborted", "crashed"}
Running == func # "none" /\ call.status = "running" /\ ~ProcessDead
At(op) == Running /\ Cur.op = op

TypeNone == "none"

\* a function is entered on its arguments
Entry ==
    /\ func \in Funcs \cup Exports
    /\ args \in ArgLists(Arity(func))
    /\ overflow_checks \in BOOLEAN
    /\ call = NewCall
    /\ mem = TextOf(args)
    /\ ty = TypeNone
    /\ val = <<>>
    /\ ret = [done |-> FALSE, value |-> 0, status |-> "running"]

Init == Entry /\ call2 = NoCall

BitsUnchanged == UNCHANGED <<ty, val, ret>>
InputsUnchanged == UNCHANGED <<func, args, overflow_checks>>
\* a statement that touches nothing but the call's locals and its buffer
Frame == InputsUnchanged /\ BitsUnchanged /\ UNCHANGED <<mem, call2>>

Step == call' = Exec(call, Cur, Load(mem, Passed(func, args)), overflow_checks) /\ Frame

TotalLength == At("total_length") /\ Step

\* the check of a _no_overflow function when total_length <= isize::MAX
Check == At("check") /\ ~check_taken(call) /\ Step

\* unreachable_unchecked() is reached: undefined behaviour.  The build either
\* dropped the branch (the call goes on) or the process dies.
CheckUndefined ==
    /\ At("check") /\ check_taken(call)
    /\ \/ call' = Advance([call EXCEPT !.undefined = TRUE])
       \/ call' = [call EXCEPT !.undefined = TRUE, !.status = "crashed"]
    /\ Frame

WithCapacity == At("with_capacity") /\ Step

\* the allocator returns null: handle_alloc_error aborts the process
\* (a capacity of 0 allocates nothing)
AllocFail ==
    /\ At("with_capacity")
    /\ call.total_length > 0 /\ call.total_length <= ISIZE_MAX
    /\ call' = [call EXCEPT !.status = "aborted"]
    /\ Frame

SetLen == At("set_len") /\ Step

LetPos == At("let_pos") /\ Step

\* copy_nonoverlapping(arg[n].as_ptr(), dst, arg[n].len()).  Bytes that go
\* outside the buffer are undefined behaviour: they land on whatever the heap
\* holds behind the buffer, which is the text of the arguments, the buffer of
\* the other call, or nothing that is read again.
Copy ==
    /\ At("copy")
    /\ LET a   == Load(mem, Passed(func, args))
           src == a[Cur.n]
           off == dst_offset(call, a, Cur.dst)
       IN  /\ call' = Exec(call, Cur, a, overflow_checks)
           /\ \/ UNCHANGED <<mem, call2>>
              \/ /\ outside(call, src, off) # {}
                 /\ mem' = overrun(mem, call, src, off)
                 /\ mem' # mem
                 /\ UNCHANGED call2
              \/ /\ outside(call, src, off) # {}
                 /\ call2.status \in {"running", "returned"}
                 /\ call2' = [call2 EXCEPT !.buf = overrun(call2.buf, call, src, off)]
                 /\ call2' # call2
                 /\ UNCHANGED mem
    /\ InputsUnchanged /\ BitsUnchanged

PosAdd == At("pos_add") /\ Step

Return == At("ret") /\ Step

\* after a write outside the buffer the behaviour is undefined: the call may go
\* on over the corrupted heap, or the process dies (SIGSEGV, allocator abort)
Crash ==
    /\ Running /\ call.oob
    /\ call' = [call EXCEPT !.status = "crashed"]
    /\ Frame

\* the arguments are released once no call uses them: an owned argument
\* (T = String) is dropped when the function returns, a borrowed one by its
\* owner later on.  The memory is handed back and overwritten.
DropArgs ==
    /\ func # "none" /\ ~ProcessDead
    /\ call.status = "returned" /\ call2.status # "running"
    /\ \E j \in 1..Len(mem) : mem[j] # 0
    /\ mem' = [j \in 1..Len(mem) |-> 0]
    /\ UNCHANGED <<call, call2>>
    /\ InputsUnchanged /\ BitsUnchanged

Next ==
    \/ TotalLength
    \/ Check
    \/ CheckUndefined
    \/ WithCapacity
    \/ AllocFail
    \/ SetLen
    \/ LetPos
    \/ Copy
    \/ PosAdd
    \/ Return
    \/ Crash
    \/ DropArgs

Spec == Init /\ [][Next]_vars

----------------------------------------------------------------------------
(* SpecConcurrent: two calls of the same function on the same argument     *)
(* strings, on two threads of one process.  `call` is the call whose       *)
(* thread runs, `call2` the other one; Switch hands the processor over     *)
(* between any two statements.                                             *)
(***************************************************************************)

\* the concurrent calls are drawn among the functions of at most this arity
MaxConcArity == 3

InitConcurrent == Entry /\ Arity(func) <= MaxConcArity /\ call2 = NewCall

Switch ==
    /\ func # "none" /\ ~ProcessDead
    /\ call2.status = "running"
    /\ call' = call2
    /\ call2' = call
    /\ UNCHANGED mem
    /\ InputsUnchanged /\ BitsUnchanged

NextConcurrent ==
    \/ TotalLength
    \/ Check
    \/ CheckUndefined
    \/ WithCapacity
    \/ AllocFail
    \/ SetLen
    \/ LetPos
    \/ Copy
    \/ PosAdd
    \/ Return
    \/ Crash
    \/ DropArgs
    \/ Switch

SpecConcurrent == InitConcurrent /\ [][NextConcurrent]_vars

----------------------------------------------------------------------------
(* BitsNeeded (count_bits.rs).  A value is its bit pattern: a sequence of   *)
(* BITS(t) bits, the most significant first; bit j (of weight 2^j) is      *)
(* element BITS(t) - j.                                                    *)
(***************************************************************************)

\* widths up to FullBits are drawn exhaustively, wider ones by samples
FullBits == 8

UnsignedTypes == {"u8", "u16", "u32", "u64", "u128", "usize"}
SignedTypes == {"i8", "i16", "i32", "i64", "i128", "isize"}
IntTypes == UnsignedTypes \cup SignedTypes

\* $bits of each impl_bits_needed! line: the type's BITS
BITS(t) ==
    CASE t \in {"u8", "i8"} -> 8
      [] t \in {"u16", "i16"} -> 16
      [] t \in {"u32", "i32"} -> 32
      [] t \in {"u64", "i64"} -> 64
      [] t \in {"u128", "i128"} -> 128
      [] t \in {"usize", "isize"} -> WordBits

\* self.trailing_zeros() in the place of self.leading_zeros()
trailing_zeros(p) ==
    LET ones == {i \in 1..Len(p) : p[i] = 1}
    IN  IF ones = {} THEN Len(p)
        ELSE Len(p) - (CHOOSE i \in ones : \A j \in ones : i >= j)

\* self.leading_zeros(): the number of zero bits before the first one bit,
\* all of them when no bit is set
leading_zeros(p) ==
    LET ones == {i \in 1..Len(p) : p[i] = 1}
    IN  IF ones = {} THEN Len(p)
        ELSE (CHOOSE i \in ones : \A j \in ones : i <= j) - 1

\* $bits - 1 - self.leading_zeros(): the position of the highest set bit
bits_needed_to_store_log2(t, p) ==
    [value |-> BITS(t) - 1 - leading_zeros(p),
     underflow |-> BITS(t) - 1 < leading_zeros(p)]

\* the bits of the magnitude of a signed value: the sign bit is left out
bits_needed_to_store_magnitude(t, p) ==
    IF t \in SignedTypes
    THEN [value |-> BITS(t) - 1 - leading_zeros(Tail(p)), underflow |-> FALSE]
    ELSE [value |-> BITS(t) - leading_zeros(p), underflow |-> FALSE]

\* $bits - self.leading_zeros() on u32: [value, underflow]; on underflow the
\* value stands for the wrapped difference
bits_needed_to_store(t, p) ==
    [value |-> BITS(t) - leading_zeros(p),
     underflow |-> BITS(t) < leading_zeros(p)]

\* the two's-complement pattern of w bits of the integer v, -2^30 <= v < 2^30
Encode(v, w) ==
    [i \in 1..w |->
        IF w - i >= 30 THEN (IF v < 0 THEN 1 ELSE 0)
        ELSE ((v % Pow2(30)) \div Pow2(w - i)) % 2]

Zero(w) == [i \in 1..w |-> 0]
\* 2^h
OneHot(w, h) == [i \in 1..w |-> IF i = w - h THEN 1 ELSE 0]
\* 2^(h+1) - 1
LowOnes(w, h) == [i \in 1..w |-> IF i >= w - h THEN 1 ELSE 0]

\* the values drawn for a type of w bits
Values(w) ==
    IF w <= FullBits THEN [1..w -> {0, 1}]
    ELSE {Zero(w)} \cup {OneHot(w, h) : h \in 0..(w - 1)}
                   \cup {LowOnes(w, h) : h \in 0..(w - 1)}
                   \cup {Encode(v, w) : v \in {-1, -2, -3}}

NoRet == [done |-> FALSE, value |-> 0, status |-> "running"]

InitBits ==
    /\ ty \in IntTypes
    /\ val \in Values(BITS(ty))
    /\ overflow_checks \in BOOLEAN
    /\ ret = NoRet
    /\ func = "none"
    /\ args = <<>>
    /\ call = NewCall
    /\ call2 = NoCall
    /\ mem = <<>>

\* value.bits_needed_to_store()
BitsNeededToStore ==
    /\ ty # TypeNone /\ ~ret.done
    /\ LET r == bits_needed_to_store(ty, val)
       IN  ret' = [done |-> TRUE, value |-> r.value,
                   status |-> IF r.underflow
                              THEN (IF overflow_checks THEN "panicked" ELSE "wrapped")
                              ELSE "returned"]
    /\ UNCHANGED <<ty, val, func, args, overflow_checks, call, call2, mem>>

NextBits == BitsNeededToStore

SpecBits == InitBits /\ [][NextBits]_vars

----------------------------------------------------------------------------
(* Claims about the concat functions (checked under Spec) *)

\* s1 ++ s2 ++ ... ++ sn, the naive left-to-right join
RECURSIVE Join(_, _)
Join(a, n) == IF n = 0 THEN <<>> ELSE Join(a, n - 1) \o a[n]

\* the sum of the lengths of the first n arguments, as a mathematical integer
RECURSIVE SumLen(_, _)
SumLen(a, n) == IF n = 0 THEN 0 ELSE SumLen(a, n - 1) + Len(a[n])

NArgs == Arity(func)
Returned == func # "none" /\ call.status = "returned"
Safe == func \in SafeFuncs
NoOverflow == func \in NoOverflowFuncs
\* the Safety section of the _no_overflow functions: the combined length is at
\* most isize::MAX
Precondition == SumLen(args, NArgs) <= ISIZE_MAX

\* C1: whenever a safe concat_N returns, for any arguments, the string returned
\* is the left-to-right join of its arguments, byte for byte.
C1_ReturnsJoin ==
    (Safe /\ Returned) => call.result = Join(args, NArgs)

\* C2: whenever a safe concat_N returns, for any arguments, the length of the
\* string returned is the sum of the lengths of the arguments.
C2_LengthIsSum ==
    (Safe /\ Returned) => Len(call.result) = SumLen(args, NArgs)

\* C3: on arguments whose summed length is at most isize::MAX, a
\* concat_N_no_overflow that returns has returned the string the safe concat_N
\* returns on the same arguments.
C3_NoOverflowEqualsSafe ==
    (NoOverflow /\ Precondition /\ Returned) =>
        LET safe == Run(NewCall, Body(SafeOf(func)), args, overflow_checks)
        IN  safe.status = "returned" /\ call.result = safe.result

\* a _no_overflow function has returned a non-empty string made of at least two
\* non-empty arguments
C3_Witness ==
    /\ NoOverflow /\ Precondition /\ Returned
    /\ Cardinality({i \in 1..NArgs : args[i] # <<>>}) >= 2
    /\ call.result # <<>>

\* the arguments of a that are not the empty string, in order
NonEmptyArgs(a) == SelectSeq(a, LAMBDA x : x # <<>>)

\* C9: when some argument is the empty string, a concat_N, or a
\* concat_N_no_overflow on arguments within its precondition, that returns has
\* returned the join of the remaining arguments (the empty string when all are
\* empty).
C9_EmptyContributesNothing ==
    (Returned /\ (Safe \/ Precondition) /\ \E i \in 1..NArgs : args[i] = <<>>) =>
        call.result = Join(NonEmptyArgs(args), Len(NonEmptyArgs(args)))

\* C10: in a safe concat_N whose arguments' lengths sum (mathematically) to more
\* than isize::MAX, the largest allocation, no byte is ever copied, nothing is
\* written outside the buffer, and the call ends in a panic or abort, never in
\* a return.
C10_TooLongFailsBeforeCopy ==
    (Safe /\ SumLen(args, NArgs) > ISIZE_MAX) =>
        /\ call.copied = 0
        /\ ~call.oob
        /\ call.status \in {"running", "panicked", "aborted"}

\* the statement of the body that creates the buffer
AllocPc == CHOOSE i \in 1..Len(Stmts) : Stmts[i].op = "with_capacity"
\* String::with_capacity has returned: the call owns its buffer
Allocated ==
    /\ func # "none"
    /\ call.pc > AllocPc
    /\ call.status \in {"running", "returned"}

\* C11 as written: a call that returns has made exactly one allocation, of
\* capacity at least total_length.
C11_ExactlyOneAllocation ==
    Returned => (call.allocs = 1 /\ call.cap >= call.total_length)

\* C11: a call of concat_N or concat_N_no_overflow that returns has asked the
\* allocator for a buffer once when the computed total_length is not zero and
\* not at all when it is zero (String::with_capacity(0) allocates nothing); the
\* capacity is at least total_length, and from with_capacity to the return no
\* step changes the capacity or allocates again.
C11_AtMostOneAllocation ==
    [][/\ Allocated => (call'.cap = call.cap /\ call'.allocs = call.allocs)
       /\ Returned' =>
            /\ call'.allocs = (IF call'.total_length > 0 THEN 1 ELSE 0)
            /\ call'.cap >= call'.total_length]_vars

\* a call has returned a non-empty string out of its one allocation
C11_Witness ==
    Returned /\ call.allocs = 1 /\ call.cap = call.total_length /\ call.copied > 0

\* a call has returned without ever allocating: all its arguments are empty
C11_NoAllocation ==
    Returned /\ call.allocs = 0 /\ \A i \in 1..NArgs : args[i] = <<>>

Exported == func \in Exports
\* the wrapped function called directly on the export's arguments, in their order
Inner == Run(NewCall, Body(Callee(func)), args, overflow_checks)

\* C14: a call of a C-ABI export (of concat_2_no_overflow_c: within the length
\* precondition) ends as the wrapped function called on the same arguments in
\* the same order: it returns the string that call returns, panics when that
\* call panics, and leaves its buffer only if that call does.
C14_ExportEqualsInner ==
    (Exported /\ (Callee(func) \in SafeFuncs \/ Precondition)) =>
        /\ call.oob => Inner.oob
        /\ call.status = "panicked" => Inner.status = "panicked"
        /\ (Returned /\ ~call.oob) =>
                (Inner.status = "returned" /\ call.result = Inner.result)

\* an export has returned the join of at least two non-empty arguments that
\* differ from one another
C14_Witness ==
    /\ Exported /\ Returned /\ ~call.oob
    /\ \E i, j \in 1..NArgs : i < j /\ args[i] # <<>> /\ args[j] # <<>> /\ args[i] # args[j]
    /\ call.result = Join(args, NArgs)

\* the call is of a safe function, or within the precondition of an unsafe one
Defined == Callee(func) \in SafeFuncs \/ Precondition

\* the copies of the body that come before statement pc
CopiesBefore(pc) == {i \in 1..(pc - 1) : Stmts[i].op = "copy"}

\* C15: in a concat_N, or a concat_N_no_overflow within its precondition, the
\* length of the buffer is total_length whenever a copy is about to run; the
\* call returns only from its last statement, after all N copies; and when it
\* returns, each of the bytes 0..total_length of the buffer has been written
\* by exactly one copy.
C15_EveryByteWrittenOnce ==
    (func # "none" /\ Defined) =>
        /\ At("copy") => call.len = call.total_length
        /\ Returned =>
            /\ call.pc = Len(Stmts)
            /\ Cardinality(CopiesBefore(call.pc)) = NArgs
            /\ Len(call.written) = call.total_length
            /\ \A i \in 1..call.total_length : call.written[i] = 1

\* the body keeps the cursor `pos` (concat_2 computes its one offset from base.len())
HasPos == \E i \in 1..Len(Stmts) : Stmts[i].op = "let_pos"

\* C16: in a concat_N whose lengths sum to at most usize::MAX, when copy i is
\* about to run its destination offset is the sum of the lengths of arguments
\* 1..i-1, which is the value of pos; its range ends at or before
\* total_length, holds no byte written by an earlier copy and follows bytes
\* that are all written; and at the return the ranges have covered
\* 0..total_length, each byte once.
C16_OffsetsArePrefixSums ==
    (func # "none" /\ Callee(func) \in SafeFuncs /\ SumLen(args, NArgs) < USIZE_RANGE) =>
        /\ At("copy") =>
            LET i   == Cur.n
                off == dst_offset(call, Passed(func, args), Cur.dst)
            IN  /\ off = SumLen(args, i - 1)
                /\ HasPos => call.pos = off
                /\ off + Len(args[i]) <= call.total_length
                /\ \A k \in 1..off : call.written[k] = 1
                /\ \A k \in (off + 1)..(off + Len(args[i])) : call.written[k] = 0
        /\ Returned =>
            /\ call.total_length = SumLen(args, NArgs)
            /\ \A k \in 1..call.total_length : call.written[k] = 1

\* the last copy of a concat_N of three or more non-empty arguments is about
\* to run, at an offset that is the sum of at least two lengths
C16_Witness ==
    /\ func # "none" /\ Callee(func) \in SafeFuncs /\ At("copy")
    /\ Cur.n = NArgs /\ NArgs >= 3
    /\ \A i \in 1..NArgs : args[i] # <<>>
    /\ call.pos = SumLen(args, NArgs - 1)

\* the statement of a _no_overflow body that compares total_length to isize::MAX
CheckPc == CHOOSE i \in 1..Len(Stmts) : Stmts[i].op = "check"
\* the call has executed the comparison
Checked ==
    \/ call.pc > CheckPc
    \/ call.pc = CheckPc /\ call.status = "crashed"
\* the body without its comparison: allocate, set the length, copy, return
Plain == Run(NewCall, SelectSeq(Stmts, LAMBDA s : s.op # "check"), args, overflow_checks)

\* C17: a concat_N_no_overflow has entered unreachable_unchecked() exactly when
\* it has compared a computed total_length greater than isize::MAX; on
\* arguments summing to at most isize::MAX, isize::MAX itself included, it
\* never enters it, and a call that returns has returned what the body
\* without the comparison returns.
C17_HintTakenOnlyAboveMax ==
    (func # "none" /\ Callee(func) \in NoOverflowFuncs) =>
        /\ call.undefined <=> (Checked /\ call.total_length > ISIZE_MAX)
        /\ Precondition =>
            /\ ~call.undefined
            /\ Returned => (Plain.status = "returned" /\ call.result = Plain.result)

\* a concat_N_no_overflow has returned a string of exactly isize::MAX bytes
C17_Witness ==
    /\ func # "none" /\ Callee(func) \in NoOverflowFuncs /\ Returned
    /\ SumLen(args, NArgs) = ISIZE_MAX
    /\ Len(call.result) = ISIZE_MAX

\* a concat_N_no_overflow has entered unreachable_unchecked()
C17_Entered ==
    func # "none" /\ Callee(func) \in NoOverflowFuncs /\ call.undefined

\* C18: no step of a concat_N, or of a concat_N_no_overflow within its
\* precondition, changes the memory of the input strings, however many
\* arguments share it; and the buffer and the returned string are storage of
\* their own, which a later change or release of the inputs leaves as it is.
C18_InputsAndResultApart ==
    [][(func # "none" /\ Defined) =>
          /\ call' # call => mem' = mem
          /\ mem' # mem => (call'.buf = call.buf /\ call'.result = call.result)]_vars

\* f called on the argument list a, run to its end
Apply(f, a) == Run(NewCall, Body(f), a, overflow_checks)

\* concat_2(x, y) where x is the outcome of an earlier call: the panic of that
\* call if it panicked, the concatenation of its result with y otherwise
ThenConcat2(x, y) ==
    IF x.status = "returned" THEN Apply("concat_2", <<x.result, y>>) ELSE x

\* concat_2(x, y) where y is the outcome of an earlier call
Concat2Then(x, y) ==
    IF y.status = "returned" THEN Apply("concat_2", <<x, y.result>>) ELSE y

\* the first n arguments
Prefix(a, n) == SubSeq(a, 1, n)

\* the call r has returned the string str
Gives(r, str) == r.status = "returned" /\ r.result = str

\* C19: a concat_3(a, b, c) that returns has returned what
\* concat_2(concat_2(a, b), c) and concat_2(a, concat_2(b, c)) return; a
\* concat_4(a, b, c, d) what concat_2(concat_3(a, b, c), d) returns; a
\* concat_5(a, b, c, d, e) what concat_2(concat_4(a, b, c, d), e) returns.
C19_AritiesCompose ==
    (Safe /\ Returned) =>
        CASE NArgs = 2 -> Gives(Apply("concat_2", args), call.result)
          [] NArgs = 3 ->
                /\ Gives(ThenConcat2(Apply("concat_2", Prefix(args, 2)), args[3]),
                         call.result)
                /\ Gives(Concat2Then(args[1], Apply("concat_2", Tail(args))),
                         call.result)
          [] NArgs = 4 ->
                Gives(ThenConcat2(Apply("concat_3", Prefix(args, 3)), args[4]),
                      call.result)
          [] NArgs = 5 ->
                Gives(ThenConcat2(Apply("concat_4", Prefix(args, 4)), args[5]),
                      call.result)

----------------------------------------------------------------------------
(* Claims about two calls (checked under SpecConcurrent) *)

\* both calls have returned
BothReturned == func # "none" /\ call.status = "returned" /\ call2.status = "returned"

\* C12: two invocations of the same concat_N, or of the same
\* concat_N_no_overflow within its precondition, on the same arguments return
\* the same string, whatever the other invocation did before or meanwhile.
C12_SameInputsSameOutput ==
    (BothReturned /\ (Safe \/ Precondition)) => call.result = call2.result

\* the call run alone, from its entry, on the arguments as they were passed
Alone == Run(NewCall, Body(func), args, overflow_checks)

\* C13: of two concat_N calls whose statements interleave on the same input
\* strings, each writes only inside its own buffer, and each one that returns
\* returns the string the call returns when it runs alone.
C13_CallsDoNotInterfere ==
    Safe =>
        \A c \in {call, call2} :
            /\ ~c.oob
            /\ c.status = "returned" =>
                    (Alone.status = "returned" /\ c.result = Alone.result)

----------------------------------------------------------------------------
(* Claims about bits_needed_to_store (checked under SpecBits) *)

Done == ty # TypeNone /\ ret.done
Unsigned == ty \in UnsignedTypes
Signed == ty \in SignedTypes

\* the width of each integer type
Width(t) ==
    CASE t \in {"u8", "i8"} -> 8
      [] t \in {"u16", "i16"} -> 16
      [] t \in {"u32", "i32"} -> 32
      [] t \in {"u64", "i64"} -> 64
      [] t \in {"u128", "i128"} -> 128
      [] t \in {"usize", "isize"} -> WordBits

\* the unsigned type of the same width
UnsignedOf(t) ==
    CASE t = "i8" -> "u8" [] t = "i16" -> "u16" [] t = "i32" -> "u32"
      [] t = "i64" -> "u64" [] t = "i128" -> "u128" [] t = "isize" -> "usize"

\* v < 2^n, for the unsigned value v of pattern p: no bit of weight 2^n or more is set
LessPow2(p, n) == \A i \in 1..Len(p) : p[i] = 1 => Len(p) - i < n

\* the unsigned value of the first n bits of p
RECURSIVE ToNat(_, _)
ToNat(p, n) == IF n = 0 THEN 0 ELSE 2 * ToNat(p, n - 1) + p[n]

\* the unsigned value of p, for p below 2^30
Value(p) == ToNat(p, Len(p))

\* the two's-complement value of p, for p of at most 30 bits
SignedValue(p) == ToNat(Tail(p), Len(p) - 1) - p[1] * Pow2(Len(p) - 1)

\* p, read as a signed value, is negative
Negative(p) == IF Len(p) <= 30 THEN SignedValue(p) < 0 ELSE p[1] = 1

\* the number of zero bits above the highest set bit
LeadingZeroCount(p) == Cardinality({i \in 1..Len(p) : \A j \in 1..i : p[j] = 0})

\* the values the documentation and the tests list
Examples ==
    (1 :> 1) @@ (2 :> 2) @@ (3 :> 2) @@ (255 :> 8) @@ (256 :> 9) @@
    (1023 :> 10) @@ (1024 :> 11)

\* C4: for an unsigned value v of width W, bits_needed_to_store(v) is
\* W - leading_zeros(v); it is the least n with v < 2^n, that is 0 for v = 0
\* and floor(log2(v)) + 1 otherwise (2^(n-1) <= v < 2^n); 1 -> 1, 2 -> 2,
\* 3 -> 2, 255 -> 8, 256 -> 9, 1023 -> 10, 1024 -> 11.
C4_UnsignedBits ==
    (Done /\ Unsigned) =>
        /\ ret.status = "returned"
        /\ ret.value = Width(ty) - LeadingZeroCount(val)
        /\ LessPow2(val, ret.value)
        /\ \A n \in 0..(ret.value - 1) : ~LessPow2(val, n)
        /\ LessPow2(val, 30) =>
              LET v == Value(val)
              IN  /\ v = 0 => ret.value = 0
                  /\ v > 0 => Pow2(ret.value - 1) <= v /\ v < Pow2(ret.value)
                  /\ v \in DOMAIN Examples => ret.value = Examples[v]

\* 1024u16 has been found to need 11 bits
C4_Witness ==
    Done /\ ty = "u16" /\ LessPow2(val, 30) /\ Value(val) = 1024 /\ ret.value = 11

\* C5: for a signed value of width W, a negative value (-1 and the minimum
\* included) needs W bits, and a non-negative value needs what the unsigned
\* value of width W of the same bit pattern needs.
C5_SignedBits ==
    (Done /\ Signed) =>
        /\ ret.status = "returned"
        /\ Negative(val) => ret.value = Width(ty)
        /\ ~Negative(val) =>
              /\ ret.value = bits_needed_to_store(UnsignedOf(ty), val).value
              /\ LessPow2(val, ret.value)
              /\ \A n \in 0..(ret.value - 1) : ~LessPow2(val, n)

\* -3i8 has been found to need 8 bits
C5_Witness ==
    Done /\ ty = "i8" /\ SignedValue(val) = -3 /\ ret.value = 8

\* C6: for every integer type of width W and every value, the call is possible,
\* the subtraction does not underflow, and the result is in 0..W.
C6_ResultInRange ==
    (ty # TypeNone) =>
        /\ ~ret.done => ENABLED BitsNeededToStore
        /\ ret.done => ret.status = "returned" /\ ret.value \in 0..Width(ty)

\* the upper end of the range has been returned: 64 for u64::MAX
C6_Witness ==
    Done /\ ty = "u64" /\ ret.value = 64 /\ \A i \in 1..64 : val[i] = 1

\* x < y, for non-negative x and y of the same width
Less(x, y) ==
    LET d == {i \in 1..Len(x) : x[i] # y[i]}
    IN  d # {} /\ x[CHOOSE i \in d : \A j \in d : i <= j] = 0

NonNegative(t, p) == t \in UnsignedTypes \/ ~Negative(p)

\* C7: for non-negative x < y of the same type,
\* bits_needed_to_store(x) <= bits_needed_to_store(y).
C7_Monotonic ==
    (Done /\ NonNegative(ty, val)) =>
        \A y \in Values(Width(ty)) :
            (NonNegative(ty, y) /\ Less(val, y)) =>
                ret.value <= bits_needed_to_store(ty, y).value

\* 256i16 has been measured, and larger i16 values needing as many and needing
\* more bits are among the values compared with it
C7_Witness ==
    /\ Done /\ ty = "i16" /\ Value(val) = 256
    /\ \E y \in Values(16) : ~Negative(y) /\ Less(val, y)
                              /\ bits_needed_to_store(ty, y).value = ret.value
    /\ \E y \in Values(16) : ~Negative(y) /\ Less(val, y)
                              /\ bits_needed_to_store(ty, y).value > ret.value

IsZero(p) == \A i \in 1..Len(p) : p[i] = 0
\* the maximum of the unsigned type: every bit set
IsMaxUnsigned(p) == \A i \in 1..Len(p) : p[i] = 1
\* the maximum of the signed type: every bit but the sign bit set
IsMaxSigned(p) == p[1] = 0 /\ \A i \in 2..Len(p) : p[i] = 1
\* the minimum of the signed type: the sign bit alone
IsMinSigned(p) == p[1] = 1 /\ \A i \in 2..Len(p) : p[i] = 0

\* C8: for every width W, 0 needs 0 bits; the maximum of the unsigned type
\* needs W; the maximum of the signed type needs W - 1 and its minimum W.
C8_Boundaries ==
    Done =>
        /\ IsZero(val) => ret.value = 0
        /\ (Unsigned /\ IsMaxUnsigned(val)) => ret.value = Width(ty)
        /\ (Signed /\ IsMaxSigned(val)) => ret.value = Width(ty) - 1
        /\ (Signed /\ IsMinSigned(val)) => ret.value = Width(ty)

\* i32::MAX has been found to need 31 bits
C8_Witness ==
    Done /\ ty = "i32" /\ IsMaxSigned(val) /\ ret.value = 31

====
